---- MODULE Spec2Model ----
(***************************************************************************)
(* Voice Shopper: session handlers (voice_agent/server.py,                 *)
(* voice_agent/agent.py, pipecat/agent.py, voice_agent/simple_server.py)   *)
(* and the backend action gateway (voice_agent/actions.py).                *)
(*                                                                         *)
(* One behaviour is one run of one of the four programs (entry).  Each     *)
(* connection is handled by one coroutine; an action of the model is the   *)
(* code a handler runs between two suspension points (awaits).             *)
(***************************************************************************)
EXTENDS Integers, Sequences, FiniteSets, TLC

\* ---------------------------------------------------------------- bounds
\* tool calls of one run with a single connection (SessionSpec)
MaxCalls == 2
\* tool calls of one run with two connections (Spec), all sessions together,
\* and of one run under fairness (FairSessionSpec)
MaxSharedCalls == 1
\* readings of the millisecond clock
MaxClock == 1
\* messages a simple_server client sends in one run (all connections together)
MaxMsgs == 2

\* ------------------------------------------------------------- constants
\* httpx.codes.FOUND, the HTTP status 302 used as a "timestamp"
FOUND == 302

\* ---------------------------------------------------------------- values
\* An optional value is a sequence of length 0 or 1: Absent is a key that is
\* not in a mapping (and Python's None once a default is applied), Some(v) a
\* value that is there.
Absent == <<>>
Some(v) == <<v>>

\* The two connections a run may accept, named in the order of acceptance.
Sessions == {"c1", "c2"}

Earlier(s) == IF s = "c2" THEN {"c1"} ELSE {}

\* The four programs of the repository that accept connections.
Entries == {"server", "agent", "pipecat", "simple"}

\* Outcomes of one HTTP POST of the shared httpx client: a 2xx answer, a
\* non-2xx answer (raise_for_status raises HTTPStatusError) or a transport
\* failure (timeout after 30 s, connection refused: httpx.TransportError).
Outcomes == {"ok", "http_500", "timeout"}

\* The resultsCount of a 2xx answer to trigger-research.
Bodies == {Some(3)}

\* str(e) of the exception an outcome raises; httpx timeouts carry an empty
\* message.
StrOf(outcome) ==
    IF outcome = "http_500" THEN "Server error '500 Internal Server Error'"
    ELSE IF outcome = "timeout" THEN ""
    ELSE "error"

\* A text built by an f-string: the literal part and the interpolated part.
Fmt(prefix, arg) == <<prefix, arg>>

NonEmpty(text) == \E i \in 1..Len(text) : text[i] # ""

StartsWith(text, prefix) == Len(text) >= 1 /\ text[1] = prefix

\* ------------------------------------------------------ tool definitions
ToolNames == {"search_products", "save_item", "get_user_preferences"}

\* "required" of each tool definition.
Required(tool) ==
    IF tool = "search_products" THEN {"query"}
    ELSE IF tool = "save_item" THEN {"product_id", "product_name"}
    ELSE {}

\* Argument mappings the language model may send: every key of the tool's
\* schema is either given or Absent.
SearchArgs ==
    { [query |-> q, min_price |-> Absent, max_price |-> mx,
       brands |-> Absent, categories |-> Absent] :
        q \in {Absent, Some("gaming laptop")}, mx \in {Absent, Some(1500)} }
      \ { [query |-> Absent, min_price |-> Absent, max_price |-> Some(1500),
           brands |-> Absent, categories |-> Absent] }

SaveArgs ==
    { [product_id |-> Some("p1"), product_name |-> n,
       description |-> Absent, price |-> Absent] :
        n \in {Absent, Some("Dell XPS")} }

\* Searches with every combination of filters: each price not given, 0 or
\* positive, each list not given, empty or with an element.
FilterArgs ==
    [query : {Some("gaming laptop")},
     min_price : {Absent, Some(0), Some(100)},
     max_price : {Absent, Some(0), Some(1500)},
     brands : {Absent, Some(<<>>), Some(<<"Dell">>)},
     categories : {Absent, Some(<<>>), Some(<<"laptops">>)}]

\* get_user_preferences takes no arguments: the empty mapping.
PrefsArgs == { <<>> }

ArgsOf(tool) ==
    IF tool = "search_products" THEN SearchArgs
    ELSE IF tool = "save_item" THEN SaveArgs
    ELSE PrefsArgs

\* The keys an argument mapping gives.
Given(args) == { k \in DOMAIN args : args[k] # Absent }

\* ------------------------------------------------------------------ state
VARIABLES
    entry,       \* the program that runs: an element of Entries
    now,         \* the clock reading, in milliseconds
    pc,          \* pc[s]: where the handler of connection s is
    session_id,  \* session_id[s], user_id[s]: the ids of the handler
    user_id,
    connected,   \* connected[s]: the client has not disconnected
    cancelled,   \* cancelled[s]: task.cancel() was called for s's pipeline task
    exit,        \* exit[s]: "none", "normal", or the exception the handler caught
    cur,         \* cur[s]: the tool call in flight, if any
    disp,        \* disp[s]: the tool calls of s that ended, with their results
    posts,       \* posts[s]: the backend requests sent on behalf of s, in order
    ncalls,      \* tool calls issued so far
    msg,         \* msg[s]: simple_server, the message being handled, if any
    sent,        \* sent[s]: simple_server, the replies sent to the client
    nmsgs,       \* simple_server: messages the clients sent so far
    arrived,     \* arrived[s]: simple_server, messages of s's client that arrived
    query,       \* query[s]: the query parameters of connection s
    env,         \* env[v]: the value of environment variable v, if set
    phase        \* "starting", "serving" or "exited"

vars == <<entry, now, pc, session_id, user_id, connected, cancelled, exit,
          cur, disp, posts, ncalls, msg, sent, nmsgs, arrived, query, env, phase>>

\* ------------------------------------------------------- actions.py, pure
\* self.secret of the shared VoiceShopperActions: the PIPECAT_SERVER_SECRET
\* of the configuration (not empty: _validate_config exits on an empty one).
Secret == env["PIPECAT_SERVER_SECRET"][1]

\* The lambdas registered for the tools call the action with **args: Python
\* raises TypeError at the call when a parameter without default is not
\* given.  get_user_preferences ignores args.
BindRaises(tool, args) ==
    /\ tool \in {"search_products", "save_item"}
    /\ Required(tool) \ Given(args) # {}

\* A faulty variant: the prices are tested for truth like the lists, so a
\* price of 0 is dropped.
BuildPreferencesTruthy(min_price, max_price, brands, categories) ==
    (IF min_price # Absent /\ min_price[1] # 0 THEN {"minPrice"} ELSE {}) \cup
    (IF max_price # Absent /\ max_price[1] # 0 THEN {"maxPrice"} ELSE {}) \cup
    (IF brands # Absent /\ brands[1] # <<>> THEN {"brands"} ELSE {}) \cup
    (IF categories # Absent /\ categories[1] # <<>> THEN {"categories"} ELSE {})

\* preferences = {} ... if min_price is not None / if brands: ...
BuildPreferences(min_price, max_price, brands, categories) ==
    (IF min_price # Absent THEN {"minPrice"} ELSE {}) \cup
    (IF max_price # Absent THEN {"maxPrice"} ELSE {}) \cup
    (IF brands # Absent /\ brands[1] # <<>> THEN {"brands"} ELSE {}) \cup
    (IF categories # Absent /\ categories[1] # <<>> THEN {"categories"} ELSE {})

\* The value sent under a key of the preferences object.
PreferenceValue(args, key) ==
    IF key = "minPrice" THEN args.min_price[1]
    ELSE IF key = "maxPrice" THEN args.max_price[1]
    ELSE IF key = "brands" THEN args.brands[1]
    ELSE args.categories[1]

\* The body and headers of POST /pipecat/trigger-research.  preferences is
\* Absent for JSON null ("preferences if preferences else None").
TriggerRequest(session_id_, user_id_, args) ==
    LET keys == BuildPreferences(args.min_price, args.max_price,
                                 args.brands, args.categories)
    IN [url |-> "/pipecat/trigger-research",
        sessionId |-> session_id_,
        userId |-> Some(user_id_),
        query |-> args.query,
        preferences |-> IF keys # {}
                        THEN Some([k \in keys |-> PreferenceValue(args, k)])
                        ELSE Absent,
        speaker |-> Absent, text |-> Absent, timestamp |-> Absent,
        secret |-> Secret]

\* A faulty variant: log_conversation posts without the headers argument.
LogRequestWithoutHeader(session_id_, speaker, text, timestamp) ==
    [url |-> "/pipecat/log-conversation",
     sessionId |-> session_id_,
     userId |-> Absent, query |-> Absent, preferences |-> Absent,
     speaker |-> Some(speaker), text |-> Some(text),
     timestamp |-> Some(timestamp),
     secret |-> ""]

\* The body and headers of POST /pipecat/log-conversation.
LogRequest(session_id_, speaker, text, timestamp) ==
    [url |-> "/pipecat/log-conversation",
     sessionId |-> session_id_,
     userId |-> Absent, query |-> Absent, preferences |-> Absent,
     speaker |-> Some(speaker), text |-> Some(text),
     timestamp |-> Some(timestamp),
     secret |-> Secret]

\* int(httpx.codes.FOUND * 1000), the timestamp the actions log.
ActionTimestamp == FOUND * 1000

\* A value returned to (or an exception raised into) the caller of a tool
\* handler.
Returned(success, message, results_count, preferences) ==
    [raised |-> Absent, success |-> success, message |-> message,
     results_count |-> results_count, preferences |-> preferences]

Raised(exc) ==
    [raised |-> Some(exc), success |-> FALSE, message |-> Absent,
     results_count |-> Absent, preferences |-> Absent]

\* A faulty variant: the count is read under a key the backend does not
\* send, so the default is returned.
ResultsCountDefault(body) == 0

\* result.get('resultsCount', 0) of the backend's answer.
ResultsCount(body) == IF body = Absent THEN 0 ELSE body[1]

SearchSuccess(body) ==
    Returned(TRUE, Fmt("Found products matching your criteria: ", ResultsCount(body)),
             Some(ResultsCount(body)), Absent)

SearchFailure(outcome) ==
    Returned(FALSE,
             Fmt("Sorry, I encountered an error while searching: ", StrOf(outcome)),
             Absent, Absent)

SaveSuccess(product_name) ==
    Returned(TRUE, Fmt("I've saved to your list: ", product_name), Absent, Absent)

SaveFailure(outcome) ==
    Returned(FALSE, Fmt("Sorry, I couldn't save that item: ", StrOf(outcome)),
             Absent, Absent)

PreferencesResult ==
    Returned(TRUE, Absent, Absent, Some("placeholder preferences"))

\* A faulty variant: the except clause names httpx.HTTPStatusError only.
SearchCatchesHttpOnly(outcome) == outcome = "http_500"

\* "except Exception" of search_products: does the failure of the
\* trigger-research POST stay inside the method?
SearchCatches(outcome) == TRUE

\* A faulty variant: log_conversation re-raises what it caught.
LogConversationReraises(outcome) == outcome # "ok"

\* "except Exception" of log_conversation: does a failed log POST raise out
\* of log_conversation?
LogConversationRaises(outcome) == FALSE

\* ------------------------------------------------------- state, continued
\* Ids: a literal text and, for a generated id, the clock reading appended.
Id(text, stamp) == [text |-> text, stamp |-> stamp]
NoId == Id("", Absent)

\* The handler is inside runner.run(task) / pipeline.run(transport).
Running == {"running", "await_trigger", "await_log"}

\* Exceptions a pipeline build or run may raise into the handler.
Exceptions == {"StageError", "WebSocketDisconnect"}

\* sessionId / userId query parameters of a connection to agent.py.
QuerySessionIds == {Absent, Some("s1")}
QueryUserIds == {Absent, Some("u1")}

\* The query parameters of a connection that has none.
NoQuery == [sessionId |-> Absent, userId |-> Absent]

\* The environment variables the programs read, and what os.getenv may
\* return for one: None, the empty string or a value.
EnvVars == {"GOOGLE_API_KEY", "CARTESIA_API_KEY", "CONVEX_HTTP_URL",
            "PIPECAT_SERVER_SECRET"}
EnvValues == {Absent, Some(""), Some("set")}
FullEnv == [v \in EnvVars |-> Some("set")]

\* required_vars of _validate_config, per program.
RequiredVars(e) ==
    IF e = "simple" THEN {"GOOGLE_API_KEY", "CARTESIA_API_KEY"}
    ELSE IF e = "pipecat"
    THEN {"GOOGLE_API_KEY", "CONVEX_HTTP_URL", "PIPECAT_SERVER_SECRET"}
    ELSE EnvVars

\* A faulty variant: only a variable that is not set counts as missing.
NotUnset(value) == value # Absent

\* Python's truth value of what os.getenv returned: "if not value" holds
\* for None and for the empty string.
Truthy(value) == value # Absent /\ value # Some("")

\* _validate_config: missing = [var ... if not value].
Missing(e, environ) == { v \in RequiredVars(e) : ~Truthy(environ[v]) }

\* No connection was made yet.
NoConnections ==
    /\ entry \in Entries
    /\ arrived = [s \in Sessions |-> 0]
    /\ query = [s \in Sessions |-> NoQuery]
    /\ now = 0
    /\ pc = [s \in Sessions |-> "idle"]
    /\ session_id = [s \in Sessions |-> NoId]
    /\ user_id = [s \in Sessions |-> NoId]
    /\ connected = [s \in Sessions |-> TRUE]
    /\ cancelled = [s \in Sessions |-> FALSE]
    /\ exit = [s \in Sessions |-> "none"]
    /\ cur = [s \in Sessions |-> Absent]
    /\ disp = [s \in Sessions |-> <<>>]
    /\ posts = [s \in Sessions |-> <<>>]
    /\ ncalls = 0
    /\ msg = [s \in Sessions |-> Absent]
    /\ sent = [s \in Sessions |-> <<>>]
    /\ nmsgs = 0

\* The state once the module's agent/server object is constructed with a
\* complete configuration.
Init ==
    /\ NoConnections
    /\ env = FullEnv
    /\ phase = "serving"

\* The process starts in whatever environment it is given.
StartupInit ==
    /\ NoConnections
    /\ env \in [EnvVars -> EnvValues \cup {Some("s3cret")}]
    /\ \A v \in EnvVars \ {"PIPECAT_SERVER_SECRET"} : env[v] \in EnvValues
    /\ phase = "starting"

\* VoiceShopperServer() / VoiceShopperAgent(): __init__ reads the
\* environment and _validate_config calls sys.exit(1) when a required
\* variable is missing; otherwise the object is built and the server starts.
Construct ==
    /\ phase = "starting"
    /\ phase' = IF Missing(entry, env) # {} THEN "exited" ELSE "serving"
    /\ UNCHANGED <<env, arrived, query, entry, now, pc, session_id, user_id,
                   connected, cancelled, exit, cur, disp, posts, ncalls, msg,
                   sent, nmsgs>>

\* The clock advances.
Tick ==
    /\ now < MaxClock
    /\ now' = now + 1
    /\ UNCHANGED <<env, phase, arrived, query,
                   entry, pc, session_id, user_id, connected, cancelled, exit,
                   cur, disp, posts, ncalls, msg, sent, nmsgs>>

\* ------------------------------------------------------ session handlers
\* f"session_{int(time.time() * 1000)}" and its variants.
GeneratedId(prefix) == Id(prefix, Some(now))

\* The query strings a client may connect with.
Queries == [sessionId : QuerySessionIds, userId : QueryUserIds]

\* A faulty variant: when the session id is missing both ids are generated,
\* as in the handler's fallback for a query string that cannot be parsed.
ResolveUserIdWithSession(q) ==
    IF q.userId = Absent \/ q.sessionId = Absent THEN GeneratedId("user_")
    ELSE Id(q.userId[1], Absent)

\* voice_agent/agent.py handle_session: the ids of the query string, each
\* replaced by a generated one when it is missing or empty.
ResolveSessionId(q) ==
    IF q.sessionId = Absent THEN GeneratedId("session_")
    ELSE Id(q.sessionId[1], Absent)

ResolveUserId(q) ==
    IF q.userId = Absent THEN GeneratedId("user_")
    ELSE Id(q.userId[1], Absent)

\* server.py websocket_endpoint, up to the try block.
AcceptServer(s, queries) ==
    /\ entry = "server"
    /\ phase = "serving"
    /\ pc[s] = "idle"
    /\ \A t \in Earlier(s) : pc[t] # "idle"
    /\ \E q \in queries : query' = [query EXCEPT ![s] = q]
    /\ session_id' = [session_id EXCEPT ![s] = GeneratedId("session_")]
    /\ user_id' = [user_id EXCEPT ![s] = Id("browser_user", Absent)]
    /\ pc' = [pc EXCEPT ![s] = "create"]
    /\ UNCHANGED <<env, phase, arrived,
                   entry, now, connected, cancelled, exit, cur, disp, posts,
                   ncalls, msg, sent, nmsgs>>

\* voice_agent/agent.py handle_session, up to the second try block: the ids
\* of the query string, or generated ones.
HandleSessionAgent(s) ==
    /\ entry = "agent"
    /\ phase = "serving"
    /\ pc[s] = "idle"
    /\ \A t \in Earlier(s) : pc[t] # "idle"
    /\ \E q \in Queries :
        /\ query' = [query EXCEPT ![s] = q]
        /\ session_id' = [session_id EXCEPT ![s] = ResolveSessionId(q)]
        /\ user_id' = [user_id EXCEPT ![s] = ResolveUserId(q)]
    /\ pc' = [pc EXCEPT ![s] = "create"]
    /\ UNCHANGED <<env, phase, arrived,
                   entry, now, connected, cancelled, exit, cur, disp, posts,
                   ncalls, msg, sent, nmsgs>>

\* pipecat/agent.py handle_session, up to the try block.
HandleSessionPipecat(s, queries) ==
    /\ entry = "pipecat"
    /\ phase = "serving"
    /\ pc[s] = "idle"
    /\ \A t \in Earlier(s) : pc[t] # "idle"
    /\ \E q \in queries : query' = [query EXCEPT ![s] = q]
    /\ session_id' = [session_id EXCEPT ![s] = GeneratedId("session_")]
    /\ user_id' = [user_id EXCEPT ![s] = Id("user_placeholder", Absent)]
    /\ pc' = [pc EXCEPT ![s] = "create"]
    /\ UNCHANGED <<env, phase, arrived,
                   entry, now, connected, cancelled, exit, cur, disp, posts,
                   ncalls, msg, sent, nmsgs>>

\* A faulty variant: every handler has server.py's clause for WebSocketDisconnect.
CatchClauseDisconnectEverywhere(e, exc) ==
    IF exc = "WebSocketDisconnect" THEN "disconnect" ELSE "log"

\* A faulty variant: no handler has a clause for WebSocketDisconnect, every
\* exception reaches "except Exception".
CatchClauseExceptionOnly(e, exc) == "log"

\* The except clauses of a handler: what is done with an exception that
\* leaves the try block.  server.py has a clause for WebSocketDisconnect
\* before "except Exception"; the agents have "except Exception" alone.
CatchClause(e, exc) ==
    IF e = "server" /\ exc = "WebSocketDisconnect" THEN "disconnect"
    ELSE "log"

\* A faulty variant: the exception is not contained by the handler and takes
\* the handlers of the other connections down with it.
ExceptEndsEverySession(s, exc) ==
    /\ exit' = [exit EXCEPT ![s] = exc]
    /\ pc' = [t \in Sessions |->
                IF t = s \/ pc[t] # "idle" THEN "crashed" ELSE pc[t]]
    /\ UNCHANGED posts

\* The handler catches exc: the state after the except clause's first await.
Except(s, exc) ==
    /\ exit' = [exit EXCEPT ![s] = exc]
    /\ IF CatchClause(entry, exc) = "log"
       THEN /\ posts' = [posts EXCEPT ![s] = Append(@,
                    LogRequest(session_id[s], "system",
                               Fmt("Session error: ", exc), now))]
            /\ pc' = [pc EXCEPT ![s] = "await_errlog"]
       ELSE /\ pc' = [pc EXCEPT ![s] = "ended"]
            /\ UNCHANGED posts

\* A stage of a pipeline: the object put in the list and the kind of stage
\* it is.
StageOf(name, kind) == [name |-> name, kind |-> kind]

\* A faulty variant: the speech service is listed before the language model.
PipelineStagesTtsFirst(e) ==
    << StageOf("transport.input()", "Input"),
       StageOf("context_aggregator.user()", "UserAggregator"),
       StageOf("tts_service", "Synthesizer"),
       StageOf("llm_service", "Generator"),
       StageOf("transport.output()", "Output"),
       StageOf("context_aggregator.assistant()", "AssistantAggregator") >>

\* Pipeline([...]) of create_pipeline, per program.  The pipeline of
\* pipecat/agent.py lists no transport stage: its transport is given to
\* pipeline.run.
PipelineStages(e) ==
    IF e = "pipecat"
    THEN << StageOf("vad", "ActivityDetector"),
            StageOf("sentence_aggregator", "UserAggregator"),
            StageOf("llm_service", "Generator"),
            StageOf("llm_aggregator", "AssistantAggregator"),
            StageOf("tts_service", "Synthesizer") >>
    ELSE << StageOf("transport.input()", "Input"),
            StageOf("context_aggregator.user()", "UserAggregator"),
            StageOf("llm_service", "Generator"),
            StageOf("tts_service", "Synthesizer"),
            StageOf("transport.output()", "Output"),
            StageOf("context_aggregator.assistant()", "AssistantAggregator") >>

\* The pipeline built for s, once create_pipeline returned it.
PipelineOf(s) ==
    IF entry \in {"server", "agent", "pipecat"} /\ pc[s] \in Running
    THEN PipelineStages(entry) ELSE <<>>

\* create_pipeline builds the services, the pipeline and the task, and
\* registers the tool handlers; a constructor may raise.
CreatePipeline(s) ==
    /\ pc[s] = "create"
    /\ \/ /\ pc' = [pc EXCEPT ![s] = "running"]
          /\ UNCHANGED <<exit, posts>>
       \/ Except(s, "StageError")
    /\ UNCHANGED <<env, phase, arrived, query,
                   entry, now, session_id, user_id, connected, cancelled,
                   cur, disp, ncalls, msg, sent, nmsgs>>

\* A faulty variant: when the run returns, the handler builds a new pipeline
\* for the connection and runs it again.
RunCompletesRestarts(s) ==
    /\ pc[s] = "running"
    /\ pc' = [pc EXCEPT ![s] = "create"]
    /\ exit' = [exit EXCEPT ![s] = "normal"]
    /\ UNCHANGED <<env, phase, arrived, query,
                   entry, now, session_id, user_id, connected, cancelled,
                   cur, disp, posts, ncalls, msg, sent, nmsgs>>

\* runner.run(task) returns: the pipeline ended by itself.
RunCompletes(s) ==
    /\ pc[s] = "running"
    /\ pc' = [pc EXCEPT ![s] = "ended"]
    /\ exit' = [exit EXCEPT ![s] = "normal"]
    /\ UNCHANGED <<env, phase, arrived, query,
                   entry, now, session_id, user_id, connected, cancelled,
                   cur, disp, posts, ncalls, msg, sent, nmsgs>>

\* runner.run(task) raises.
RunRaises(s) ==
    /\ pc[s] = "running"
    /\ \E exc \in Exceptions : Except(s, exc)
    /\ UNCHANGED <<env, phase, arrived, query,
                   entry, now, session_id, user_id, connected, cancelled,
                   cur, disp, ncalls, msg, sent, nmsgs>>

\* The answer to the "Session error" log request arrives; the handler
\* returns, unless log_conversation raises.
ErrLogResponse(s) ==
    /\ pc[s] = "await_errlog"
    /\ \E o \in Outcomes :
        pc' = [pc EXCEPT ![s] =
                  IF LogConversationRaises(o) THEN "crashed" ELSE "ended"]
    /\ UNCHANGED <<env, phase, arrived, query,
                   entry, now, session_id, user_id, connected, cancelled, exit,
                   cur, disp, posts, ncalls, msg, sent, nmsgs>>

\* The client closes the connection.  Only server.py (its transport's
\* on_client_disconnected event) and simple_server.py (receive_text,
\* send_json) observe it: agent.py runs the pipeline on a LocalAudioTransport,
\* and in pipecat/agent.py the run just ends or raises (RunCompletes,
\* RunRaises).
ClientDisconnect(s) ==
    /\ entry \in {"server", "simple"}
    /\ connected[s]
    /\ pc[s] \notin {"idle", "ended", "crashed"}
    /\ connected' = [connected EXCEPT ![s] = FALSE]
    /\ UNCHANGED <<env, phase, arrived, query,
                   entry, now, pc, session_id, user_id, cancelled, exit,
                   cur, disp, posts, ncalls, msg, sent, nmsgs>>

\* A faulty variant: on_client_disconnected logs the disconnect and cancels nothing.
OnDisconnectedLogsOnly(s) ==
    /\ entry = "server"
    /\ pc[s] \in Running
    /\ ~connected[s]
    /\ ~cancelled[s]
    /\ UNCHANGED vars

\* server.py on_client_disconnected: await task.cancel().
OnDisconnected(s) ==
    /\ entry = "server"
    /\ pc[s] \in Running
    /\ ~connected[s]
    /\ ~cancelled[s]
    /\ cancelled' = [cancelled EXCEPT ![s] = TRUE]
    /\ UNCHANGED <<env, phase, arrived, query,
                   entry, now, pc, session_id, user_id, connected, exit,
                   cur, disp, posts, ncalls, msg, sent, nmsgs>>

\* --------------------------------------------------------- tool dispatch
\* One ended tool call: what was called, the backend requests made for it,
\* how the backend answered them (Absent: no such request, or no answer),
\* and what the caller got.
Dispatch(tool, args, trigger, body, log, requests, result) ==
    [tool |-> tool, args |-> args, trigger |-> trigger, body |-> body,
     log |-> log, requests |-> requests, result |-> result]

\* The call in flight.
InFlight(tool, args, trigger, body, requests) ==
    [tool |-> tool, args |-> args, trigger |-> trigger, body |-> body,
     requests |-> requests]

\* The turns the actions log.
SearchedForTurn(session_id_, args) ==
    LogRequest(session_id_, "system", Fmt("Searched for: ", args.query[1]),
               ActionTimestamp)

SavedItemTurn(session_id_, args) ==
    LogRequest(session_id_, "system", Fmt("Saved item: ", args.product_name[1]),
               ActionTimestamp)

\* A faulty variant: the ids are kept on the shared agent/server object and
\* overwritten by each new connection, so that a tool handler sees those of
\* the connection accepted last.
BoundSessionLatest(s) == IF pc["c2"] # "idle" THEN "c2" ELSE "c1"

\* create_pipeline(session_id, user_id, ...): the lambdas registered for the
\* tools capture the parameters of the call that built this pipeline; the
\* connection whose ids a tool handler of s passes to the action.
BoundSession(s) == s

\* The language model calls a registered tool: the lambda of
\* create_pipeline calls the action, which runs to its first await.
ToolCallWith(s, budget, searches) ==
    /\ entry # "simple"
    /\ pc[s] = "running"
    /\ ~cancelled[s]
    /\ ncalls < budget
    /\ ncalls' = ncalls + 1
    /\ \E tool \in ToolNames :
       \E args \in (IF tool = "search_products" THEN searches ELSE ArgsOf(tool)) :
        IF BindRaises(tool, args)
        THEN /\ disp' = [disp EXCEPT ![s] = Append(@,
                    Dispatch(tool, args, Absent, Absent, Absent, <<>>, Raised("TypeError")))]
             /\ UNCHANGED <<pc, cur, posts>>
        ELSE IF tool = "search_products"
        THEN /\ posts' = [posts EXCEPT ![s] = Append(@,
                    TriggerRequest(session_id[BoundSession(s)], user_id[BoundSession(s)], args))]
             /\ cur' = [cur EXCEPT ![s] = Some(InFlight(tool, args, Absent, Absent,
                    <<TriggerRequest(session_id[BoundSession(s)], user_id[BoundSession(s)], args)>>))]
             /\ pc' = [pc EXCEPT ![s] = "await_trigger"]
             /\ UNCHANGED disp
        ELSE IF tool = "save_item"
        THEN /\ posts' = [posts EXCEPT ![s] = Append(@, SavedItemTurn(session_id[BoundSession(s)], args))]
             /\ cur' = [cur EXCEPT ![s] = Some(InFlight(tool, args, Absent, Absent,
                    <<SavedItemTurn(session_id[BoundSession(s)], args)>>))]
             /\ pc' = [pc EXCEPT ![s] = "await_log"]
             /\ UNCHANGED disp
        ELSE /\ disp' = [disp EXCEPT ![s] = Append(@,
                    Dispatch(tool, args, Absent, Absent, Absent, <<>>, PreferencesResult))]
             /\ UNCHANGED <<pc, cur, posts>>
    /\ UNCHANGED <<env, phase, arrived, query,
                   entry, now, session_id, user_id, connected, cancelled, exit,
                   msg, sent, nmsgs>>

\* The tool calls of the sessions: searches with a query, or a query and a
\* maximum price.
ToolCall(s, budget) == ToolCallWith(s, budget, SearchArgs)

\* search_products: the answer to POST /pipecat/trigger-research arrives.
\* On success the "Searched for" turn is logged; on failure the except
\* clause returns the failure result.
TriggerResponse(s) ==
    /\ pc[s] = "await_trigger"
    /\ LET c == cur[s][1] IN
       \E o \in Outcomes : \E body \in Bodies :
        IF o = "ok"
        THEN /\ posts' = [posts EXCEPT ![s] = Append(@, SearchedForTurn(session_id[BoundSession(s)], c.args))]
             /\ cur' = [cur EXCEPT ![s] = Some(InFlight(c.tool, c.args, Some(o), body,
                    Append(c.requests, SearchedForTurn(session_id[BoundSession(s)], c.args))))]
             /\ pc' = [pc EXCEPT ![s] = "await_log"]
             /\ UNCHANGED disp
        ELSE /\ disp' = [disp EXCEPT ![s] = Append(@,
                    Dispatch(c.tool, c.args, Some(o), Absent, Absent, c.requests,
                             IF SearchCatches(o) THEN SearchFailure(o)
                             ELSE Raised("HTTPError")))]
             /\ cur' = [cur EXCEPT ![s] = Absent]
             /\ pc' = [pc EXCEPT ![s] = "running"]
             /\ UNCHANGED posts
    /\ UNCHANGED <<env, phase, arrived, query,
                   entry, now, session_id, user_id, connected, cancelled, exit,
                   ncalls, msg, sent, nmsgs>>

\* The result of an action whose log_conversation call ended with outcome o.
AfterLog(c, o) ==
    IF c.tool = "search_products"
    THEN IF LogConversationRaises(o) THEN SearchFailure(o) ELSE SearchSuccess(c.body)
    ELSE IF LogConversationRaises(o) THEN SaveFailure(o)
         ELSE SaveSuccess(c.args.product_name[1])

\* A faulty variant: a log request that failed ends the run of the pipeline.
LogResponseFailureEndsRun(s) ==
    /\ pc[s] = "await_log"
    /\ LET c == cur[s][1] IN
       \E o \in Outcomes :
        /\ disp' = [disp EXCEPT ![s] = Append(@,
                    Dispatch(c.tool, c.args, c.trigger, c.body, Some(o), c.requests,
                             AfterLog(c, o)))]
        /\ pc' = [pc EXCEPT ![s] = IF o = "ok" THEN "running" ELSE "ended"]
        /\ exit' = [exit EXCEPT ![s] = IF o = "ok" THEN @ ELSE "normal"]
    /\ cur' = [cur EXCEPT ![s] = Absent]
    /\ UNCHANGED <<env, phase, arrived, query,
                   entry, now, session_id, user_id, connected, cancelled,
                   posts, ncalls, msg, sent, nmsgs>>

\* A faulty variant: a log request that failed is sent again.
LogResponseRetries(s) ==
    /\ pc[s] = "await_log"
    /\ LET c == cur[s][1] IN
       \E o \in Outcomes :
        IF o = "ok"
        THEN /\ disp' = [disp EXCEPT ![s] = Append(@,
                    Dispatch(c.tool, c.args, c.trigger, c.body, Some(o), c.requests,
                             AfterLog(c, o)))]
             /\ cur' = [cur EXCEPT ![s] = Absent]
             /\ pc' = [pc EXCEPT ![s] = "running"]
             /\ UNCHANGED posts
        ELSE /\ posts' = [posts EXCEPT ![s] =
                    Append(@, c.requests[Len(c.requests)])]
             /\ UNCHANGED <<disp, cur, pc>>
    /\ UNCHANGED <<env, phase, arrived, query,
                   entry, now, session_id, user_id, connected, cancelled, exit,
                   ncalls, msg, sent, nmsgs>>

\* search_products / save_item: the answer to POST /pipecat/log-conversation
\* arrives, log_conversation returns and the action returns its result.
LogResponse(s) ==
    /\ pc[s] = "await_log"
    /\ LET c == cur[s][1] IN
       \E o \in Outcomes :
        disp' = [disp EXCEPT ![s] = Append(@,
                    Dispatch(c.tool, c.args, c.trigger, c.body, Some(o), c.requests,
                             AfterLog(c, o)))]
    /\ cur' = [cur EXCEPT ![s] = Absent]
    /\ pc' = [pc EXCEPT ![s] = "running"]
    /\ UNCHANGED <<env, phase, arrived, query,
                   entry, now, session_id, user_id, connected, cancelled, exit,
                   posts, ncalls, msg, sent, nmsgs>>

\* A faulty variant: when the cancelled task ends, the handler logs what the
\* agent had said of the abandoned response as an agent turn.
RunCancelledLogsAgentTurn(s) ==
    /\ pc[s] \in Running
    /\ cancelled[s]
    /\ pc' = [pc EXCEPT ![s] = "await_errlog"]
    /\ exit' = [exit EXCEPT ![s] = "normal"]
    /\ cur' = [cur EXCEPT ![s] = Absent]
    /\ disp' = [disp EXCEPT ![s] =
            IF cur[s] = Absent THEN @
            ELSE Append(@, Dispatch(cur[s][1].tool, cur[s][1].args, cur[s][1].trigger,
                                    cur[s][1].body, Absent, cur[s][1].requests,
                                    Raised("CancelledError")))]
    /\ posts' = [posts EXCEPT ![s] = Append(@,
            LogRequest(session_id[s], "agent", Fmt("", "partial response"), now))]
    /\ UNCHANGED <<env, phase, arrived, query,
                   entry, now, session_id, user_id, connected, cancelled,
                   ncalls, msg, sent, nmsgs>>

\* The cancelled pipeline task ends: a tool call in flight is abandoned
\* (CancelledError is no Exception), runner.run returns and the handler
\* returns.
RunCancelled(s) ==
    /\ pc[s] \in Running
    /\ cancelled[s]
    /\ pc' = [pc EXCEPT ![s] = "ended"]
    /\ exit' = [exit EXCEPT ![s] = "normal"]
    /\ cur' = [cur EXCEPT ![s] = Absent]
    /\ disp' = [disp EXCEPT ![s] =
            IF cur[s] = Absent THEN @
            ELSE Append(@, Dispatch(cur[s][1].tool, cur[s][1].args, cur[s][1].trigger,
                                    cur[s][1].body, Absent, cur[s][1].requests,
                                    Raised("CancelledError")))]
    /\ UNCHANGED <<env, phase, arrived, query,
                   entry, now, session_id, user_id, connected, cancelled,
                   posts, ncalls, msg, sent, nmsgs>>

\* ----------------------------------------------------------- simple_server
\* What a client of simple_server may send: text that is no JSON, a
\* transcript message, a JSON object of another type, JSON that is no object.
MsgKinds == {"invalid_json", "transcript", "other_type", "non_object"}

Apology == "I'm sorry, I encountered an error processing your request."

\* A reply to message m of the connection; begun and seen record how many
\* messages of the client had arrived when m was read and when the reply
\* was sent.
Reply(type, text, m, seen) ==
    [type |-> type, text |-> text, for |-> m.k, begun |-> m.at, seen |-> seen]

\* The messages of s's client the handler has read.
NRead(s) == IF msg[s] = Absent THEN 0 ELSE msg[s][1].k

\* simple_server.py websocket_endpoint, up to the try block.
AcceptSimple(s, queries) ==
    /\ entry = "simple"
    /\ phase = "serving"
    /\ pc[s] = "idle"
    /\ \A t \in Earlier(s) : pc[t] # "idle"
    /\ \E q \in queries : query' = [query EXCEPT ![s] = q]
    /\ session_id' = [session_id EXCEPT ![s] = GeneratedId("session_")]
    /\ pc' = [pc EXCEPT ![s] = "recv"]
    /\ UNCHANGED <<env, phase, arrived,
                   entry, now, user_id, connected, cancelled, exit, cur, disp,
                   posts, ncalls, msg, sent, nmsgs>>

\* The client sends a message: it arrives at the server and waits there
\* until the handler calls receive_text.
ClientSend(s) ==
    /\ entry = "simple"
    /\ connected[s]
    /\ pc[s] \notin {"idle", "ended", "crashed"}
    /\ nmsgs < MaxMsgs
    /\ nmsgs' = nmsgs + 1
    /\ arrived' = [arrived EXCEPT ![s] = @ + 1]
    /\ UNCHANGED <<env, phase, query, entry, now, pc, session_id, user_id,
                   connected, cancelled, exit, cur, disp, posts, ncalls, msg, sent>>

\* A faulty variant: the next message is read while the speech of the
\* previous one is still being synthesized, as if every message were handled
\* in a task of its own.
ReceiveTextDuringSynthesis(s) ==
    /\ pc[s] \in {"recv", "tts"}
    /\ NRead(s) < arrived[s]
    /\ \E kind \in MsgKinds :
        /\ msg' = [msg EXCEPT ![s] = Some([kind |-> kind, k |-> NRead(s) + 1,
                                             at |-> arrived[s], text |-> ""])]
        /\ IF kind = "invalid_json"
           THEN pc' = [pc EXCEPT ![s] = "send_error"] /\ UNCHANGED exit
           ELSE IF kind = "transcript"
           THEN pc' = [pc EXCEPT ![s] = "llm"] /\ UNCHANGED exit
           ELSE IF kind = "other_type"
           THEN pc' = [pc EXCEPT ![s] = "recv"] /\ UNCHANGED exit
           ELSE /\ pc' = [pc EXCEPT ![s] = "ended"]
                /\ exit' = [exit EXCEPT ![s] = "AttributeError"]
    /\ UNCHANGED <<env, phase, arrived, query,
                   entry, now, session_id, user_id,
                   connected, cancelled, cur, disp, posts, ncalls, sent, nmsgs>>

\* receive_text returns the next message that arrived; it is parsed and its
\* type examined.
ReceiveText(s) ==
    /\ pc[s] = "recv"
    /\ NRead(s) < arrived[s]
    /\ \E kind \in MsgKinds :
        /\ msg' = [msg EXCEPT ![s] = Some([kind |-> kind, k |-> NRead(s) + 1,
                                             at |-> arrived[s], text |-> ""])]
        /\ IF kind = "invalid_json"
           THEN pc' = [pc EXCEPT ![s] = "send_error"] /\ UNCHANGED exit
           ELSE IF kind = "transcript"
           THEN pc' = [pc EXCEPT ![s] = "llm"] /\ UNCHANGED exit
           ELSE IF kind = "other_type"
           THEN pc' = [pc EXCEPT ![s] = "recv"] /\ UNCHANGED exit
           ELSE /\ pc' = [pc EXCEPT ![s] = "ended"]
                /\ exit' = [exit EXCEPT ![s] = "AttributeError"]
    /\ UNCHANGED <<env, phase, arrived, query,
                   entry, now, session_id, user_id,
                   connected, cancelled, cur, disp, posts, ncalls, sent, nmsgs>>

\* receive_text raises WebSocketDisconnect, once the messages that arrived
\* before the disconnect are read: the handler returns.
ReceiveDisconnect(s) ==
    /\ pc[s] = "recv"
    /\ ~connected[s]
    /\ NRead(s) = arrived[s]
    /\ pc' = [pc EXCEPT ![s] = "ended"]
    /\ exit' = [exit EXCEPT ![s] = "WebSocketDisconnect"]
    /\ UNCHANGED <<env, phase, arrived, query,
                   entry, now, session_id, user_id, connected, cancelled,
                   cur, disp, posts, ncalls, msg, sent, nmsgs>>

\* A faulty variant: process_text lets the failure of the call out, and the
\* handler catches it outside its loop.
ProcessTextRaises(s) ==
    /\ pc[s] = "llm"
    /\ \E text \in {"Here are some laptops.", Apology} :
        IF text = Apology
        THEN /\ pc' = [pc EXCEPT ![s] = "ended"]
             /\ exit' = [exit EXCEPT ![s] = "Exception"]
             /\ UNCHANGED msg
        ELSE /\ msg' = [msg EXCEPT ![s] = Some([@[1] EXCEPT !.text = text])]
             /\ pc' = [pc EXCEPT ![s] = "send_response"]
             /\ UNCHANGED exit
    /\ UNCHANGED <<env, phase, arrived, query,
                   entry, now, session_id, user_id, connected, cancelled,
                   cur, disp, posts, ncalls, sent, nmsgs>>

\* process_text returns the model's text, or the apology when the call fails.
ProcessText(s) ==
    /\ pc[s] = "llm"
    /\ \E text \in {"Here are some laptops.", Apology} :
        msg' = [msg EXCEPT ![s] = Some([@[1] EXCEPT !.text = text])]
    /\ pc' = [pc EXCEPT ![s] = "send_response"]
    /\ UNCHANGED <<env, phase, arrived, query,
                   entry, now, session_id, user_id, connected, cancelled, exit,
                   cur, disp, posts, ncalls, sent, nmsgs>>

\* websocket.send_json(reply), then the handler goes to pc next; on a
\* closed connection the send raises and the handler returns.
Send(s, reply, next) ==
    IF connected[s]
    THEN /\ sent' = [sent EXCEPT ![s] = Append(@, reply)]
         /\ pc' = [pc EXCEPT ![s] = next]
         /\ UNCHANGED exit
    ELSE /\ pc' = [pc EXCEPT ![s] = "ended"]
         /\ exit' = [exit EXCEPT ![s] = "WebSocketDisconnect"]
         /\ UNCHANGED sent

SendResponse(s) ==
    /\ pc[s] = "send_response"
    /\ Send(s, Reply("response", msg[s][1].text, msg[s][1], arrived[s]), "tts")
    /\ UNCHANGED <<env, phase, arrived, query,
                   entry, now, session_id, user_id, connected, cancelled,
                   cur, disp, posts, ncalls, msg, nmsgs>>

\* A faulty variant: the audio is sent without the test "if audio_data".
SynthesizeSpeechThenAlwaysSend(s) ==
    /\ pc[s] = "tts"
    /\ \E audio \in {"", "pcm"} :
        /\ msg' = [msg EXCEPT ![s] = Some([@[1] EXCEPT !.text = audio])]
        /\ pc' = [pc EXCEPT ![s] = "send_audio"]
    /\ UNCHANGED <<env, phase, arrived, query,
                   entry, now, session_id, user_id, connected, cancelled, exit,
                   cur, disp, posts, ncalls, sent, nmsgs>>

\* synthesize_speech returns the audio, or b"" when the call fails.
SynthesizeSpeech(s) ==
    /\ pc[s] = "tts"
    /\ \E audio \in {"", "pcm"} :
        /\ msg' = [msg EXCEPT ![s] = Some([@[1] EXCEPT !.text = audio])]
        /\ pc' = [pc EXCEPT ![s] = IF audio # "" THEN "send_audio" ELSE "recv"]
    /\ UNCHANGED <<env, phase, arrived, query,
                   entry, now, session_id, user_id, connected, cancelled, exit,
                   cur, disp, posts, ncalls, sent, nmsgs>>

SendAudio(s) ==
    /\ pc[s] = "send_audio"
    /\ Send(s, Reply("audio", msg[s][1].text, msg[s][1], arrived[s]), "recv")
    /\ UNCHANGED <<env, phase, arrived, query,
                   entry, now, session_id, user_id, connected, cancelled,
                   cur, disp, posts, ncalls, msg, nmsgs>>

\* A faulty variant: the JSONDecodeError is handled outside the loop, the
\* handler returns after the error reply.
SendErrorLeavesLoop(s) ==
    /\ pc[s] = "send_error"
    /\ Send(s, Reply("error", "Invalid message format", msg[s][1], arrived[s]), "ended")
    /\ UNCHANGED <<env, phase, arrived, query,
                   entry, now, session_id, user_id, connected, cancelled,
                   cur, disp, posts, ncalls, msg, nmsgs>>

SendError(s) ==
    /\ pc[s] = "send_error"
    /\ Send(s, Reply("error", "Invalid message format", msg[s][1], arrived[s]), "recv")
    /\ UNCHANGED <<env, phase, arrived, query,
                   entry, now, session_id, user_id, connected, cancelled,
                   cur, disp, posts, ncalls, msg, nmsgs>>

\* ------------------------------------------------------------ the system
\* What the handler of s does by itself once it can: every await of the
\* handlers ends (requests of the shared client time out after 30 s).
HandlerStep(s) ==
    \/ CreatePipeline(s)
    \/ OnDisconnected(s)
    \/ RunCancelled(s)
    \/ TriggerResponse(s)
    \/ LogResponse(s)
    \/ ErrLogResponse(s)
    \/ ReceiveText(s)
    \/ ReceiveDisconnect(s)
    \/ ProcessText(s)
    \/ SendResponse(s)
    \/ SynthesizeSpeech(s)
    \/ SendAudio(s)
    \/ SendError(s)

\* What the clients, the language model and the pipeline stages may do;
\* queries are the query strings clients connect with to the programs that
\* do not read them (clients of agent.py connect with any of Queries).
EnvStep(s, budget, queries) ==
    \/ AcceptServer(s, queries)
    \/ HandleSessionAgent(s)
    \/ HandleSessionPipecat(s, queries)
    \/ AcceptSimple(s, queries)
    \/ ToolCall(s, budget)
    \/ RunCompletes(s)
    \/ RunRaises(s)
    \/ ClientDisconnect(s)
    \/ ClientSend(s)

\* Two connections whose pipelines run together and take turns calling
\* tools; a pipeline may fail to build, no run is ended from outside.
ConcurrentNext ==
    \/ Tick
    \/ \E s \in Sessions :
        \/ AcceptServer(s, {NoQuery})
        \/ HandleSessionAgent(s)
        \/ HandleSessionPipecat(s, {NoQuery})
        \/ CreatePipeline(s)
        \/ ToolCall(s, MaxCalls)
        \/ TriggerResponse(s)
        \/ LogResponse(s)
        \/ ErrLogResponse(s)

ConcurrentSpec == Init /\ [][ConcurrentNext]_vars

\* One connection to server.py whose tool calls are searches with any
\* combination of filters.
FilterInit == Init /\ entry = "server"

FilterNext ==
    \/ AcceptServer("c1", {NoQuery})
    \/ CreatePipeline("c1")
    \/ ToolCallWith("c1", MaxSharedCalls, FilterArgs)
    \/ TriggerResponse("c1")
    \/ LogResponse("c1")
    \/ ErrLogResponse("c1")

FilterSpec == FilterInit /\ [][FilterNext]_vars

\* Two connections served concurrently.
Next ==
    \/ Tick
    \/ \E s \in Sessions : EnvStep(s, MaxSharedCalls, {NoQuery})
    \/ \E s \in Sessions : HandlerStep(s)

Spec == Init /\ [][Next]_vars

\* One connection, with more tool calls.
SessionNext ==
    \/ Tick
    \/ EnvStep("c1", MaxCalls, {NoQuery})
    \/ HandlerStep("c1")

SessionSpec == Init /\ [][SessionNext]_vars

\* One connection with few tool calls, under cooperative scheduling: a
\* handler that can go on eventually does.
FairSessionNext ==
    \/ Tick
    \/ EnvStep("c1", MaxSharedCalls, {NoQuery})
    \/ HandlerStep("c1")

FairSessionSpec ==
    Init /\ [][FairSessionNext]_vars /\ WF_vars(HandlerStep("c1"))

\* One connection with few tool calls, made with any query string.
ConnectNext ==
    \/ Tick
    \/ EnvStep("c1", MaxSharedCalls, Queries)
    \/ HandlerStep("c1")

ConnectSpec == Init /\ [][ConnectNext]_vars

\* The process from its start, in any environment, serving one connection.
StartupNext ==
    \/ Construct
    \/ Tick
    \/ EnvStep("c1", MaxSharedCalls, {NoQuery})
    \/ HandlerStep("c1")

StartupSpec == StartupInit /\ [][StartupNext]_vars

\* ================================================================ claims
\* The ended tool calls of all sessions.
Ended == UNION { { <<s, i>> : i \in DOMAIN disp[s] } : s \in Sessions }

Call(x) == disp[x[1]][x[2]]

\* A call returned a failure result to its caller: no exception, success
\* false, a message that is not empty.
ReturnedFailure(d) ==
    /\ d.result.raised = Absent
    /\ d.result.success = FALSE
    /\ d.result.message # Absent
    /\ NonEmpty(d.result.message)

MissingRequired(d) == Required(d.tool) \ Given(d.args) # {}

FailedOutcomes == {Some("http_500"), Some("timeout")}

\* C1 (as claimed): every tool dispatch whose arguments lack a required
\* parameter returns success=false with a message and raises nothing to its
\* caller.
C1_MissingParamReturnsFailure ==
    \A x \in Ended : MissingRequired(Call(x)) => ReturnedFailure(Call(x))

\* C2: a search_products call with its required arguments whose
\* trigger-research request fails (non-2xx answer, timeout or network
\* failure) returns success=false with a non-empty message; no exception
\* leaves the method.
C2_SearchFailureIsReturned ==
    \A x \in Ended :
        (Call(x).tool = "search_products" /\ Call(x).trigger \in FailedOutcomes)
            => ReturnedFailure(Call(x))

\* C2 witness: a search whose trigger-research request timed out has ended.
C2_Witness ==
    \E x \in Ended :
        /\ Call(x).tool = "search_products"
        /\ ~MissingRequired(Call(x))
        /\ Call(x).trigger = Some("timeout")

\* A "Session error" turn: a log-conversation request of speaker system
\* whose text starts with "Session error: ".
IsSessionError(r) ==
    /\ r.url = "/pipecat/log-conversation"
    /\ r.speaker = Some("system")
    /\ StartsWith(r.text[1], "Session error: ")

SessionErrors(s) == SelectSeq(posts[s], IsSessionError)

\* The handlers that build and run a pipeline.
PipelineEntries == {"server", "agent", "pipecat"}

\* The handler of s caught an exception of its pipeline's build or run and
\* is past the first await of its except clause.
Caught(s) ==
    /\ entry \in PipelineEntries
    /\ exit[s] \in Exceptions
    /\ pc[s] \in {"await_errlog", "ended", "crashed"}

\* C3 (as claimed): any exception that leaves the build or the run of a
\* session's pipeline is recorded as exactly one "Session error" turn for
\* that session, and the handler does not let it propagate.
C3_EveryExceptionIsLogged ==
    \A s \in Sessions :
        Caught(s) => /\ Len(SessionErrors(s)) = 1
                     /\ pc[s] # "crashed"

\* C3 (amended): the same for every exception except a WebSocketDisconnect
\* in server.py, which ends the session without any "Session error" turn;
\* the turn carries the session's id and no handler propagates.
C3_ExceptionIsLoggedUnlessDisconnect ==
    \A s \in Sessions :
        Caught(s) =>
            /\ pc[s] # "crashed"
            /\ IF entry = "server" /\ exit[s] = "WebSocketDisconnect"
               THEN SessionErrors(s) = <<>>
               ELSE /\ Len(SessionErrors(s)) = 1
                    /\ SessionErrors(s)[1].sessionId = session_id[s]
                    /\ SessionErrors(s)[1].text = Some(Fmt("Session error: ", exit[s]))

\* C3 witness: in agent.py a run raised WebSocketDisconnect, the turn was
\* submitted and the handler returned.
C3_Witness ==
    \E s \in Sessions :
        /\ entry = "agent"
        /\ exit[s] = "WebSocketDisconnect"
        /\ pc[s] = "ended"
        /\ Len(SessionErrors(s)) = 1

\* Two ended calls were the same call with the same answer to
\* trigger-research.
SameAction(d, e) ==
    /\ d.tool = e.tool
    /\ d.args = e.args
    /\ d.trigger = e.trigger
    /\ d.body = e.body

\* C4: a failed log-conversation request raises out of no action and out of
\* no handler, and the result of the action that logged is the result it
\* returns when the log succeeds.
C4_LogFailureChangesNothing ==
    /\ \A s \in Sessions : pc[s] # "crashed"
    /\ \A x \in Ended : Call(x).log # Absent => Call(x).result.raised = Absent
    /\ \A x, y \in Ended :
        (/\ Call(x).log = Some("ok")
         /\ Call(y).log \in FailedOutcomes
         /\ SameAction(Call(x), Call(y)))
            => Call(x).result = Call(y).result

\* C4 witness: the same save_item call ended once with its log accepted and
\* once with its log answered by HTTP 500.
C4_Witness ==
    \E x, y \in Ended :
        /\ Call(x).tool = "save_item"
        /\ Call(x).log = Some("ok")
        /\ Call(y).log = Some("http_500")
        /\ SameAction(Call(x), Call(y))

\* A turn of speaker system that is no "Session error": the summary of an
\* action.
IsActionTurn(r) ==
    /\ r.url = "/pipecat/log-conversation"
    /\ r.speaker = Some("system")
    /\ ~StartsWith(r.text[1], "Session error: ")

ActionTurns(s) == SelectSeq(posts[s], IsActionTurn)

\* The call ran to its end: it was neither refused at the call (C1) nor
\* abandoned by a cancellation.
RanToEnd(d) == d.result.raised = Absent

\* C5 (as claimed): every tool dispatch submits a system turn that
\* summarizes the action, whether or not its backend request succeeds.
C5_EveryDispatchIsLogged ==
    \A x \in Ended :
        RanToEnd(Call(x)) =>
            \E k \in DOMAIN Call(x).requests : IsActionTurn(Call(x).requests[k])

\* C5, the case it names: a search whose trigger-research request fails
\* still submits its "Searched for" turn.
C5_FailedSearchIsLogged ==
    \A x \in Ended :
        (Call(x).tool = "search_products" /\ Call(x).trigger \in FailedOutcomes)
            => \E k \in DOMAIN Call(x).requests : IsActionTurn(Call(x).requests[k])

\* C6 (as claimed): the N tool calls a session dispatched one after the
\* other caused exactly N log submissions, the i-th for the i-th call.
C6_OneLogPerCallInOrder ==
    \A s \in Sessions :
        (cur[s] = Absent /\ \A i \in DOMAIN disp[s] : RanToEnd(disp[s][i])) =>
            /\ Len(ActionTurns(s)) = Len(disp[s])
            /\ \A i \in DOMAIN disp[s] :
                \E k \in DOMAIN disp[s][i].requests :
                    disp[s][i].requests[k] = ActionTurns(s)[i]

\* C7 (as claimed): a save_item dispatch whose backend request is answered
\* by HTTP 500 returns success=false with a non-empty message.
C7_SaveItemFailsOn500 ==
    \A x \in Ended :
        (Call(x).tool = "save_item" /\ Call(x).log = Some("http_500"))
            => ReturnedFailure(Call(x))

\* The session of s is active: accepted and its handler has not returned.
Active(s) == pc[s] \notin {"idle", "ended", "crashed"}

\* C8 (as claimed): two sessions that are active at the same time have
\* different session ids.
C8_ActiveSessionIdsDiffer ==
    \A s, t \in Sessions :
        (s # t /\ Active(s) /\ Active(t)) => session_id[s] # session_id[t]

\* C9 (as claimed): a session handler that has returned has invoked the
\* teardown of its pipeline (task.cancel(), the only teardown the handlers
\* have) on the way.
C9_TeardownOnEveryExit ==
    \A s \in Sessions :
        (entry \in PipelineEntries /\ pc[s] = "ended") => cancelled[s]

\* C10: in server.py and simple_server.py, once the client of a session has
\* disconnected the session's handler eventually returns; in server.py a
\* pipeline that is still running then has its task cancelled first, unless
\* the run ends by itself.
C10_DisconnectEndsSession ==
    \A s \in Sessions :
        /\ (entry \in {"server", "simple"} /\ ~connected[s]) ~> (pc[s] = "ended")
        /\ (entry = "server" /\ ~connected[s] /\ pc[s] \in Running)
                ~> (cancelled[s] \/ pc[s] \notin Running)

\* C10 witness: in server.py a client disconnected while a tool call was in
\* flight, the pipeline task was cancelled, the call was abandoned and the
\* handler returned.
C10_Witness ==
    \E s \in Sessions :
        /\ entry = "server"
        /\ ~connected[s]
        /\ cancelled[s]
        /\ pc[s] = "ended"
        /\ \E i \in DOMAIN disp[s] : disp[s][i].result.raised = Some("CancelledError")

\* The replies of an agent turn: the model's text and its audio.
TurnOutput(r) == r.type \in {"response", "audio"}

\* C11 (as claimed): when new user input arrives while an agent turn is in
\* flight, the turn is cancelled and no further output of it is sent to the
\* client; in simple_server: no response or audio of a turn is sent once a
\* message of the client has arrived after the turn began.
C11_NoOutputAfterNewInput ==
    \A s \in Sessions : \A i \in DOMAIN sent[s] :
        TurnOutput(sent[s][i]) => sent[s][i].seen = sent[s][i].begun

\* The turns submitted for s: its requests to /pipecat/log-conversation.
Turns(s) == SelectSeq(posts[s], LAMBDA r : r.url = "/pipecat/log-conversation")

\* A tool call of s was abandoned when its pipeline task was cancelled.
Abandoned(s) ==
    /\ cancelled[s]
    /\ \E i \in DOMAIN disp[s] : disp[s][i].result.raised = Some("CancelledError")

\* C12: no turn with speaker "agent" is ever submitted, so none for an agent
\* response whose turn was cancelled or abandoned.
C12_NoAgentTurnForAbandonedResponse ==
    \A s \in Sessions : \A i \in DOMAIN Turns(s) :
        Turns(s)[i].speaker # Some("agent")

\* C12 witness: a task was cancelled while search_products awaited the
\* answer to its log request; the call was abandoned, the handler returned,
\* and the session's turns are there to be examined.
C12_Witness ==
    \E s \in Sessions :
        /\ Abandoned(s)
        /\ pc[s] = "ended"
        /\ Turns(s) # <<>>

LogsOf(requests) ==
    SelectSeq(requests, LAMBDA r : r.url = "/pipecat/log-conversation")

RECURSIVE LogsOfAll(_)
LogsOfAll(calls) ==
    IF calls = <<>> THEN <<>>
    ELSE LogsOf(Head(calls).requests) \o LogsOfAll(Tail(calls))

\* The turns s recorded, in the order it recorded them: those of its ended
\* tool calls in call order, those of the call in flight, and the session
\* error its handler logged.
RecordedTurns(s) ==
    LogsOfAll(disp[s])
        \o (IF cur[s] = Absent THEN <<>> ELSE LogsOf(cur[s][1].requests))
        \o SelectSeq(posts[s], IsSessionError)

\* The log request of the tool call of s that just ended failed.
LogJustFailed(s) ==
    /\ Len(disp'[s]) = Len(disp[s]) + 1
    /\ disp'[s][Len(disp'[s])].log \in FailedOutcomes

\* C14: within a session the turns are submitted in the order they were
\* recorded, and a failure to persist a turn neither reorders the turns nor
\* prevents the submission of later ones: the session runs on after it.
C14_TurnsInRecordedOrder ==
    /\ [](\A s \in Sessions : Turns(s) = RecordedTurns(s))
    /\ [][\A s \in Sessions : LogJustFailed(s) => pc'[s] = "running"]_vars

\* C14 witness: the log request of a session's first call failed and its
\* second call submitted its turn after it.
C14_Witness ==
    \E s \in Sessions :
        /\ Len(disp[s]) = 2
        /\ disp[s][1].log \in FailedOutcomes
        /\ LogsOf(disp[s][2].requests) # <<>>
        /\ Len(Turns(s)) = 2

\* C15: a recorded turn causes one POST to /pipecat/log-conversation: no
\* tool call holds more than one log request, and while a log request awaits
\* its answer, and when the answer arrives, whatever it is, the session sends
\* nothing.
C15_OnePostPerTurn ==
    /\ [](\A x \in Ended : Len(LogsOf(Call(x).requests)) <= 1)
    /\ [][\A s \in Sessions :
            pc[s] \in {"await_log", "await_errlog"} => posts'[s] = posts[s]]_vars

\* C15 witness: a tool call's log request failed, the call ended, and the
\* session's only request is that one.
C15_Witness ==
    \E s \in Sessions :
        /\ Len(disp[s]) = 1
        /\ disp[s][1].tool = "save_item"
        /\ disp[s][1].log \in FailedOutcomes
        /\ pc[s] = "running"
        /\ Len(posts[s]) = 1

\* C16 (as claimed): recording a turn is fire-and-forget: a tool call's
\* result is returned without waiting for the answer to its log request, so
\* no call is still in flight once its log request is submitted.
C16_ResultDoesNotWaitForLog ==
    \A s \in Sessions :
        cur[s] # Absent => LogsOf(cur[s][1].requests) = <<>>

\* The connection of s was made with both ids in its query string.
SuppliedBoth(s) == query[s].sessionId # Absent /\ query[s].userId # Absent

\* C17 (as claimed): a session whose connection supplied sessionId and
\* userId uses exactly those values as its ids, in every request it sends,
\* whichever program accepted the connection.
C17_SuppliedIdsAreUsed ==
    \A s \in Sessions :
        (pc[s] # "idle" /\ SuppliedBoth(s)) =>
            /\ session_id[s] = Id(query[s].sessionId[1], Absent)
            /\ user_id[s] = Id(query[s].userId[1], Absent)
            /\ \A i \in DOMAIN posts[s] :
                /\ posts[s][i].sessionId = Id(query[s].sessionId[1], Absent)
                /\ posts[s][i].userId # Absent =>
                        posts[s][i].userId = Some(Id(query[s].userId[1], Absent))

\* An id made of the prefix and a clock reading.
IsGenerated(id, prefix) ==
    /\ id.text = prefix
    /\ id.stamp # Absent
    /\ id.stamp[1] \in 0..now

SearchWithMaxPrice(d) ==
    /\ d.tool = "search_products"
    /\ d.args.query # Absent
    /\ d.args.max_price # Absent
    /\ d.args.min_price = Absent
    /\ d.args.brands = Absent
    /\ d.args.categories = Absent

TriggersOf(requests) ==
    SelectSeq(requests, LAMBDA r : r.url = "/pipecat/trigger-research")

\* C19: a search_products call with query q and max_price m and no other
\* filter in session (s, u) makes exactly one POST to
\* /pipecat/trigger-research, with query q, sessionId s, userId u and
\* preferences {"maxPrice": m}; when the backend answers it with
\* resultsCount n, the call returns success=true and results_count n and a
\* turn with speaker "system" and text "Searched for: q" is recorded for s.
C19_SearchWithMaxPrice ==
    \A x \in Ended : LET d == Call(x)  s == x[1] IN
        SearchWithMaxPrice(d) =>
            /\ Len(TriggersOf(d.requests)) = 1
            /\ d.requests[1].url = "/pipecat/trigger-research"
            /\ d.requests[1].query = d.args.query
            /\ d.requests[1].sessionId = session_id[s]
            /\ d.requests[1].userId = Some(user_id[s])
            /\ d.requests[1].preferences =
                    Some([k \in {"maxPrice"} |-> d.args.max_price[1]])
            /\ (d.trigger = Some("ok") /\ d.result.raised = Absent) =>
                /\ d.result.success = TRUE
                /\ d.result.results_count = d.body
                /\ LogsOf(d.requests) =
                      << LogRequest(session_id[s], "system",
                                    Fmt("Searched for: ", d.args.query[1]),
                                    ActionTimestamp) >>
                /\ \E i \in DOMAIN Turns(s) : Turns(s)[i] = LogsOf(d.requests)[1]

\* C19 witness: search_products(query="gaming laptop", max_price=1500) was
\* called, the backend answered with resultsCount 3 and the call returned.
C19_Witness ==
    \E x \in Ended :
        /\ SearchWithMaxPrice(Call(x))
        /\ Call(x).args.max_price = Some(1500)
        /\ Call(x).trigger = Some("ok")
        /\ Call(x).body = Some(3)
        /\ Call(x).result.raised = Absent
        /\ Call(x).result.results_count = Some(3)

\* A configuration value the program requires is not set or is empty.
Incomplete ==
    \E v \in RequiredVars(entry) : env[v] \in {Absent, Some("")}

\* C20: when a required configuration value is missing or empty at startup,
\* the process exits during the construction of its agent/server object: it
\* never serves, no connection is accepted and no session is created.
C20_NoSessionWithIncompleteConfig ==
    /\ (Incomplete /\ phase # "starting") => phase = "exited"
    /\ phase # "serving" => \A s \in Sessions : pc[s] = "idle" /\ posts[s] = <<>>
    /\ (\E s \in Sessions : pc[s] # "idle") => ~Incomplete

\* C20 witness: the process was started with every variable set but a
\* required one empty, and has exited.
C20_Witness ==
    /\ \E v \in RequiredVars(entry) : env[v] = Some("")
    /\ \A v \in EnvVars : env[v] # Absent
    /\ phase = "exited"

\* The handler of s catches an exception in this step.
FatalErrorIn(s) == exit[s] = "none" /\ exit'[s] \notin {"none", "normal"}

\* C21: a fatal error in one session ends only that session: the step in
\* which a handler catches an exception leaves every other session where it
\* is, with its ids, its pipeline task and its tool call in flight unchanged,
\* and no session that did not fail is ever crashed.
C21_ErrorEndsOnlyItsSession ==
    /\ [][\A s \in Sessions : FatalErrorIn(s) =>
            \A t \in Sessions \ {s} :
                /\ pc'[t] = pc[t]
                /\ session_id'[t] = session_id[t]
                /\ user_id'[t] = user_id[t]
                /\ cur'[t] = cur[t]
                /\ cancelled'[t] = cancelled[t]
                /\ exit'[t] = exit[t]
                /\ posts'[t] = posts[t]]_vars
    /\ [](\A t \in Sessions : pc[t] = "crashed" => exit[t] \notin {"none", "normal"})

\* C21 witness: one session ended on a stage error that was logged, the
\* other is running and a search of it went through the shared client:
\* trigger request and log request were both answered.
C21_Witness ==
    \E s \in Sessions : \E t \in Sessions \ {s} :
        /\ exit[s] = "StageError"
        /\ pc[s] = "ended"
        /\ SessionErrors(s) # <<>>
        /\ pc[t] = "running"
        /\ Len(disp[t]) = 1
        /\ disp[t][1].trigger = Some("ok")
        /\ disp[t][1].log = Some("ok")

\* How far the handler of a connection is: 0 no connection, 1 Starting (ids
\* resolved, pipeline being built), 2 Active (the pipeline runs, or the
\* message loop of simple_server), 3 Ending (the session error is being
\* logged), 4 Ended (the handler returned or crashed).
Stage(p) ==
    IF p = "idle" THEN 0
    ELSE IF p = "create" THEN 1
    ELSE IF p = "await_errlog" THEN 3
    ELSE IF p \in {"ended", "crashed"} THEN 4
    ELSE 2

\* C22: an accepted connection gives rise to one session: its ids are set
\* when it is accepted and never again, its lifecycle only moves forward
\* (Starting, Active, Ending, Ended), a pipeline is built for it at most once,
\* and once it is Ended its handler does nothing more.
C22_LifecycleMovesForward ==
    [][\A s \in Sessions :
        /\ Stage(pc'[s]) >= Stage(pc[s])
        /\ pc'[s] = "create" => pc[s] \in {"idle", "create"}
        /\ pc[s] # "idle" =>
            /\ session_id'[s] = session_id[s]
            /\ user_id'[s] = user_id[s]
        /\ Stage(pc[s]) = 4 =>
            /\ pc'[s] = pc[s]
            /\ posts'[s] = posts[s]
            /\ disp'[s] = disp[s]
            /\ sent'[s] = sent[s]]_vars

\* C22 witness: a session went through all the stages: its pipeline ran and
\* served a tool call, the run raised, the error was logged and the handler
\* returned.
C22_Witness ==
    \E s \in Sessions :
        /\ pc[s] = "ended"
        /\ exit[s] = "StageError"
        /\ SessionErrors(s) # <<>>
        /\ disp[s] # <<>>

\* s submits a turn in this step.
SubmitsTurn(s) ==
    /\ Len(posts'[s]) = Len(posts[s]) + 1
    /\ posts'[s][Len(posts'[s])].url = "/pipecat/log-conversation"

\* C23 (as claimed): every turn submitted to the backend carries as its
\* timestamp the clock reading, in milliseconds, at which it was recorded.
C23_TimestampIsRecordingTime ==
    [][\A s \in Sessions :
        SubmitsTurn(s) => posts'[s][Len(posts'[s])].timestamp = Some(now)]_vars

\* Where the stages of a kind stand in a pipeline.
Positions(stages, kind) == { i \in DOMAIN stages : stages[i].kind = kind }

\* Every stage of kind a stands before every stage of kind b.
Precedes(stages, a, b) ==
    \A i \in Positions(stages, a) : \A j \in Positions(stages, b) : i < j

Has(stages, kind) == Positions(stages, kind) # {}

\* The order the claim names, over the kinds of stage.
StageOrder == <<"Input", "UserAggregator", "Generator", "Synthesizer", "Output">>

C26_EveryRequestCarriesSecret ==
    \A s \in Sessions : \A i \in DOMAIN posts[s] :
        /\ posts[s][i].secret # ""
        /\ env["PIPECAT_SERVER_SECRET"] = Some(posts[s][i].secret)

\* C26 witness: the process was configured with a secret, and a session
\* sent a trigger-research request and a log-conversation request.
C26_Witness ==
    \E s \in Sessions :
        /\ env["PIPECAT_SERVER_SECRET"] = Some("s3cret")
        /\ TriggersOf(posts[s]) # <<>>
        /\ LogsOf(posts[s]) # <<>>

\* The search calls of s, ended or in flight.
Searches(s) ==
    SelectSeq(disp[s] \o (IF cur[s] = Absent THEN <<>> ELSE <<cur[s][1]>>),
              LAMBDA d : d.tool = "search_products" /\ d.requests # <<>>)

\* The keys the claim gives the preferences object of a search.
ClaimedKeys(a) ==
    { k \in {"minPrice", "maxPrice", "brands", "categories"} :
        \/ k = "minPrice" /\ a.min_price # Absent
        \/ k = "maxPrice" /\ a.max_price # Absent
        \/ k = "brands" /\ a.brands \notin {Absent, Some(<<>>)}
        \/ k = "categories" /\ a.categories \notin {Absent, Some(<<>>)} }

\* C27: the preferences object sent by search_products has the key minPrice
\* iff min_price is given (0 included), maxPrice iff max_price is given (0
\* included), brands iff brands is a list that is not empty, categories iff
\* categories is a list that is not empty, and no other key, each with the
\* value given; when it would have no key, null is sent in its place.
C27_PreferencesKeys ==
    \A s \in Sessions : \A i \in DOMAIN Searches(s) :
        LET a == Searches(s)[i].args
            p == Searches(s)[i].requests[1].preferences
        IN  IF ClaimedKeys(a) = {} THEN p = Absent
            ELSE /\ p # Absent
                 /\ DOMAIN p[1] = ClaimedKeys(a)
                 /\ "minPrice" \in ClaimedKeys(a) => p[1]["minPrice"] = a.min_price[1]
                 /\ "maxPrice" \in ClaimedKeys(a) => p[1]["maxPrice"] = a.max_price[1]
                 /\ "brands" \in ClaimedKeys(a) => p[1]["brands"] = a.brands[1]
                 /\ "categories" \in ClaimedKeys(a) =>
                        p[1]["categories"] = a.categories[1]

\* C27 witness: a search with min_price 0, no max_price, an empty list of
\* brands and one category was sent with the keys minPrice and categories.
C27_Witness ==
    \E s \in Sessions : \E i \in DOMAIN Searches(s) :
        /\ Searches(s)[i].args.min_price = Some(0)
        /\ Searches(s)[i].args.max_price = Absent
        /\ Searches(s)[i].args.brands = Some(<<>>)
        /\ Searches(s)[i].args.categories = Some(<<"laptops">>)
        /\ DOMAIN Searches(s)[i].requests[1].preferences[1] = {"minPrice", "categories"}

\* C27 witness of the null case: a search whose lists are empty and whose
\* prices are not given was sent with preferences null.
C27_NullWitness ==
    \E s \in Sessions : \E i \in DOMAIN Searches(s) :
        /\ Searches(s)[i].args.brands = Some(<<>>)
        /\ Searches(s)[i].args.categories = Some(<<>>)
        /\ Searches(s)[i].requests[1].preferences = Absent

\* The replies sent to the k-th message of s's client, in the order sent.
RepliesTo(s, k) == SelectSeq(sent[s], LAMBDA r : r.for = k)

\* The message the handler of s read last is of the kind.
Handling(s, kind) == msg[s] # Absent /\ msg[s][1].kind = kind

\* The handler of s is in its loop, or left it because the client went away.
LoopGoesOn(s) ==
    \/ pc[s] \notin {"ended", "crashed"} /\ exit[s] = "none"
    \/ pc[s] = "ended" /\ exit[s] = "WebSocketDisconnect" /\ ~connected[s]

\* C28: a message of simple_server's client that is not valid JSON is
\* answered by exactly one reply, {type: "error", message: "Invalid message
\* format"}, and the handler goes back to receiving: the session ends only
\* when the client has gone away.
C28_InvalidJsonIsAnsweredAndLoopContinues ==
    \A s \in Sessions :
        /\ \A i \in DOMAIN sent[s] :
               sent[s][i].type = "error" =>
                   /\ sent[s][i].text = "Invalid message format"
                   /\ Len(RepliesTo(s, sent[s][i].for)) = 1
        /\ Handling(s, "invalid_json") =>
               /\ LoopGoesOn(s)
               /\ pc[s] \in {"send_error", "recv", "ended"}
               /\ pc[s] = "send_error" => RepliesTo(s, msg[s][1].k) = <<>>
               /\ pc[s] = "recv" =>
                      /\ Len(RepliesTo(s, msg[s][1].k)) = 1
                      /\ RepliesTo(s, msg[s][1].k)[1].type = "error"
               /\ pc[s] = "ended" /\ RepliesTo(s, msg[s][1].k) # <<>> =>
                      RepliesTo(s, msg[s][1].k)[1].type = "error"

\* C28 witness: the first message was not valid JSON and got the error
\* reply, the second was a transcript and got its response.
C28_Witness ==
    \E s \in Sessions :
        /\ Len(sent[s]) = 2
        /\ sent[s][1].type = "error" /\ sent[s][1].for = 1
        /\ sent[s][2].type = "response" /\ sent[s][2].for = 2

\* The types of the replies sent to the k-th message of s's client.
ReplyTypes(s, k) == [i \in DOMAIN RepliesTo(s, k) |-> RepliesTo(s, k)[i].type]

\* C29: a "transcript" message of simple_server's client gets exactly one
\* {type: "response"}, sent before the {type: "audio"} of that transcript,
\* and the audio is sent iff synthesize_speech returned audio that is not
\* empty; a message of another type gets no reply. (A reply that was due
\* is missing only when the client went away before it was sent.)
C29_ResponseThenAudioIffSynthesized ==
    \A s \in Sessions :
        /\ \A k \in 1..nmsgs :
               ReplyTypes(s, k) \in {<<>>, <<"error">>, <<"response">>,
                                      <<"response", "audio">>}
        /\ \A i \in DOMAIN sent[s] : sent[s][i].type = "audio" => sent[s][i].text # ""
        /\ Handling(s, "other_type") =>
               /\ RepliesTo(s, msg[s][1].k) = <<>>
               /\ LoopGoesOn(s)
        /\ Handling(s, "non_object") => RepliesTo(s, msg[s][1].k) = <<>>
        /\ Handling(s, "transcript") =>
               LET types == ReplyTypes(s, msg[s][1].k)
                   audio == msg[s][1].text
               IN  /\ LoopGoesOn(s)
                   /\ pc[s] \in {"llm", "send_response"} => types = <<>>
                   /\ pc[s] \in {"tts", "send_audio"} => types = <<"response">>
                   /\ pc[s] = "send_audio" => audio # ""
                   /\ pc[s] = "recv" =>
                          types = IF audio # "" THEN <<"response", "audio">>
                                  ELSE <<"response">>

\* C29 witness: the first transcript got a response and audio, the second,
\* whose synthesis returned nothing, a response only, and the handler is
\* receiving again.
C29_Witness ==
    \E s \in Sessions :
        /\ ReplyTypes(s, 1) = <<"response", "audio">>
        /\ ReplyTypes(s, 2) = <<"response">>
        /\ Handling(s, "transcript") /\ msg[s][1].k = 2 /\ msg[s][1].text = ""
        /\ pc[s] = "recv"

\* The language-model call for the transcript s is handling has ended:
\* process_text has returned.
AfterProcessText(s) == Handling(s, "transcript") /\ pc[s] # "llm"

\* C30: in simple_server a failed language-model call or a failed speech
\* synthesis does not end the handler's loop. Once process_text has returned,
\* whatever the outcome of the call, the handler has caught no exception but
\* the client's disconnect; while the client is there it sends the text
\* response (the apology after a failed call) before it synthesizes, and after
\* a synthesis that returned nothing it is receiving again with the response
\* sent and no audio.
C30_FailedCallsDoNotEndLoop ==
    \A s \in Sessions :
        AfterProcessText(s) =>
            LET k == msg[s][1].k
            IN  /\ exit[s] \in {"none", "WebSocketDisconnect"}
                /\ pc[s] = "ended" => ~connected[s]
                /\ pc[s] \in {"send_response", "tts", "send_audio", "recv", "ended"}
                /\ pc[s] \in {"tts", "send_audio", "recv"} =>
                       /\ RepliesTo(s, k) # <<>>
                       /\ RepliesTo(s, k)[1].type = "response"
                       /\ RepliesTo(s, k)[1].text \in {"Here are some laptops.", Apology}
                /\ pc[s] = "recv" /\ msg[s][1].text = "" =>
                       Len(RepliesTo(s, k)) = 1

\* C30 witness: the language-model call for the first transcript failed and
\* its synthesis returned nothing: the client got the apology and no audio,
\* and the second transcript got its response.
C30_Witness ==
    \E s \in Sessions :
        /\ Len(sent[s]) = 2
        /\ sent[s][1].type = "response" /\ sent[s][1].for = 1
        /\ sent[s][1].text = Apology
        /\ sent[s][2].type = "response" /\ sent[s][2].for = 2

\* The handler of s owes no reply to the message it read last: it is back
\* at receive_text.
NothingOwed(s) == pc[s] = "recv"

\* A step of simple_server's handler of s that reads a message.
Reads(s) == NRead(s)' # NRead(s)

\* C31: simple_server handles the messages of a connection one at a time in
\* the order of their arrival: a message is read only when every reply to
\* the one before has been sent, it is the next that arrived, a reply is a
\* reply to the message read last, and so the replies of a connection are in
\* the order of the messages that caused them.
C31_OneMessageAtATimeInOrder ==
    [][\A s \in Sessions :
          /\ Reads(s) => /\ NothingOwed(s)
                         /\ NRead(s)' = NRead(s) + 1
                         /\ sent'[s] = sent[s]
          /\ sent'[s] # sent[s] =>
                 /\ Len(sent'[s]) = Len(sent[s]) + 1
                 /\ SubSeq(sent'[s], 1, Len(sent[s])) = sent[s]
                 /\ sent'[s][Len(sent'[s])].for = NRead(s)
          /\ \A i, j \in DOMAIN sent'[s] :
                 i < j => sent'[s][i].for <= sent'[s][j].for]_vars

\* C31 witness: the first message, a transcript, got its response and its
\* audio, then the second, not valid JSON, its error reply.
C31_Witness ==
    \E s \in Sessions :
        /\ ReplyTypes(s, 1) = <<"response", "audio">>
        /\ ReplyTypes(s, 2) = <<"error">>
        /\ [i \in DOMAIN sent[s] |-> sent[s][i].for] = <<1, 1, 2>>

\* The handler of s has left its try block: by an exception that it caught,
\* or by the end of the run.
LeftTry(s) == pc[s] \in {"await_errlog", "ended", "crashed"}

\* C32: in server.py a session that ends by a WebSocketDisconnect submits
\* no "Session error" turn, a session that ends by another exception
\* submits exactly one, and a session whose run completes submits none;
\* no turn of the kind is submitted before the session ends.
C32_SessionErrorTurnPerKindOfEnd ==
    \A s \in Sessions :
        entry = "server" =>
            IF LeftTry(s) /\ exit[s] \notin {"none", "normal", "WebSocketDisconnect"}
            THEN Len(SessionErrors(s)) = 1
            ELSE SessionErrors(s) = <<>>

\* C32 witness: in server.py a run raised WebSocketDisconnect and the
\* handler returned without a "Session error" turn.
C32_Witness ==
    \E s \in Sessions :
        /\ entry = "server"
        /\ exit[s] = "WebSocketDisconnect"
        /\ pc[s] = "ended"
        /\ SessionErrors(s) = <<>>

\* In server.py a run raised another exception and the handler returned
\* with one "Session error" turn submitted.
C32_ErrorWitness ==
    \E s \in Sessions :
        /\ entry = "server"
        /\ exit[s] = "StageError"
        /\ pc[s] = "ended"
        /\ Len(SessionErrors(s)) = 1

\* In server.py a run completed and the handler returned with no "Session
\* error" turn.
C32_NormalWitness ==
    \E s \in Sessions :
        /\ entry = "server"
        /\ exit[s] = "normal"
        /\ pc[s] = "ended"
        /\ SessionErrors(s) = <<>>

============================================================================
